---- MODULE Spec2Model ----
(***************************************************************************)
(* A model of the Discord <-> IRC bridge of src/src/main.rs: the sessions  *)
(* spawned by Handler::ready, the start-up of listen_irc (channel mapping, *)
(* webhook provisioning, IRC connect), its select! loop, the `write`       *)
(* command and the tokio broadcast channel between them.                   *)
(*                                                                         *)
(* Strings that the code slices (IRC targets, channel names) are sequences *)
(* of one-character strings; an Option<T> is a sequence of length <= 1.    *)
(***************************************************************************)
EXTENDS Integers, Sequences, FiniteSets, TLC

\* ------------------------------------------------------------------ bounds
\* Number of Ready events (sessions spawned) explored.
MaxSessions == 2
\* Number of inbound IRC events explored, over all sessions.
MaxIrc == 2
\* broadcast::channel(64), main.rs:41, scaled down so that an overflow of the
\* backlog is within reach of the exploration.
Capacity == 2
\* Number of messages published: enough to overflow the backlog.
MaxWrites == Capacity + 1

Sessions == 1..MaxSessions

\* ------------------------------------------------------------- Option<T>
None == <<>>
Some(x) == <<x>>
unwrap_or(o, d) == IF o = None THEN d ELSE o[1]

\* ------------------------------------------------------------- the guild
\* The guild's channel list as guild.channels() returns it (main.rs:164):
\* a category named "irc" with two children, and one channel outside it.
IrcLabel == "irc"
CategoryName == <<"i", "r", "c">>
GuildChannels ==
    { [id |-> 1,  kind |-> "Category", name |-> CategoryName, parent_id |-> None],
      [id |-> 10, kind |-> "Text",     name |-> <<"g">>,      parent_id |-> Some(1)],
      [id |-> 11, kind |-> "Text",     name |-> <<"r">>,      parent_id |-> Some(1)],
      [id |-> 12, kind |-> "Text",     name |-> <<"o">>,      parent_id |-> None] }

\* Further channels a guild may hold: a second category named "irc" and one
\* named "IRC", each with a child, a text channel named "irc", and a second
\* child of category 1 named like channel 10.
MoreChannels ==
    { [id |-> 2,  kind |-> "Category", name |-> CategoryName, parent_id |-> None],
      [id |-> 3,  kind |-> "Category", name |-> <<"I", "R", "C">>,
                                                        parent_id |-> None],
      [id |-> 4,  kind |-> "Text", name |-> CategoryName, parent_id |-> None],
      [id |-> 13, kind |-> "Text", name |-> <<"g">>, parent_id |-> Some(1)],
      [id |-> 14, kind |-> "Text", name |-> <<"x">>, parent_id |-> Some(2)],
      [id |-> 15, kind |-> "Text", name |-> <<"y">>, parent_id |-> Some(3)] }

ChannelPool == GuildChannels \cup MoreChannels

\* The channel lists explored for the resolver and the provisioner: every list
\* drawn from the pool in which each child's category is present.
GuildLayouts ==
    { L \in SUBSET ChannelPool :
        \A c \in L : c.parent_id # None =>
                        \E p \in L : p.id = c.parent_id[1] }

ChannelIds == { c.id : c \in ChannelPool }

\* The webhooks the guild holds before the bridge first runs: one of another
\* label on channel 10, which has no "irc" webhook yet, and an "irc" webhook on
\* channel 11.
OtherHook == [id |-> 1, channel |-> 10, name |-> Some("other")]
OldIrcHook == [id |-> 2, channel |-> 11, name |-> Some(IrcLabel)]
InitialWebhooks == {OtherHook, OldIrcHook}

\* ------------------------------------------------------------ the inputs
Bodies == {"hi", "yo"}
Nicks == {None, Some("alice")}
\* IRC targets: a bridged channel, an unbridged one, a nick, another prefix
\* character, the empty target.
Targets == { <<"#", "g">>, <<"#", "o">>, <<"g">>, <<"&", "g">>, <<>> }
Topics == {None, Some("news")}

EmptyMap == [x \in {} |-> 0]

VARIABLES
    guild,             \* the guild's channel list: records [id, kind, name, parent_id]
    webhooks,          \* the guild's webhooks: records [id, channel, name]
    pc,                \* per session: the position of its task
    bridged_channels,  \* per session: HashMap<ChannelId, String>
    bridge_webhooks,   \* per session: HashMap<String, Webhook>
    todo,              \* per session: channels the provisioning loop has left
    listed,            \* per session: Some(c) after c's listing found no "irc" hook
    ircStream,         \* per session: "open" or "ended"
    rx_next,           \* per session: the receiver's cursor into the broadcast
    sentIdx,           \* per session: position in `sent` of the last message sent to IRC
    rxDisabled,        \* per session: select! disabled the rx.recv() branch
    handled,           \* per session: events the loop has processed
    creates,           \* per session: create_webhook calls made
    sequel,            \* per session: it resolved after a provisioning had completed
    error,             \* per session: the call whose failure ended the task
    sent,              \* every CMessage published on the broadcast channel
    nCalls,            \* per session: relay calls made (post, edit, send)
    lastCall,          \* the latest relay call made
    lastWrite,         \* the outcome of the latest `write` invocation
    nIrc               \* inbound IRC events so far

vars == << guild, webhooks, pc, bridged_channels, bridge_webhooks, todo, listed,
           ircStream, rx_next, sentIdx, rxDisabled, handled, creates, sequel, error, sent,
           nCalls, lastCall, lastWrite, nIrc >>

NoWrite == [echoed |-> FALSE, loops |-> 0, result |-> "none"]

Call(s, kind, hook, channel, target, username, content, ok) ==
    [session |-> s, kind |-> kind, hook |-> hook, channel |-> channel,
     target |-> target, username |-> username, content |-> content, ok |-> ok]

NoCall == Call(0, "none", 0, 0, None, "", "", TRUE)

\* No session is spawned, nothing is published and no call is made yet.
Start ==
    /\ pc = [s \in Sessions |-> "unspawned"]
    /\ bridged_channels = [s \in Sessions |-> EmptyMap]
    /\ bridge_webhooks = [s \in Sessions |-> EmptyMap]
    /\ todo = [s \in Sessions |-> {}]
    /\ listed = [s \in Sessions |-> None]
    /\ ircStream = [s \in Sessions |-> "open"]
    /\ rx_next = [s \in Sessions |-> 0]
    /\ sentIdx = [s \in Sessions |-> 0]
    /\ rxDisabled = [s \in Sessions |-> FALSE]
    /\ handled = [s \in Sessions |-> 0]
    /\ creates = [s \in Sessions |-> 0]
    /\ sequel = [s \in Sessions |-> FALSE]
    /\ error = [s \in Sessions |-> "none"]
    /\ sent = <<>>
    /\ nCalls = [s \in Sessions |-> 0]
    /\ lastCall = NoCall
    /\ lastWrite = NoWrite
    /\ nIrc = 0

Init ==
    /\ guild = GuildChannels
    /\ webhooks = InitialWebhooks
    /\ Start

\* The same start, on any of the channel lists explored.
InitLayouts ==
    /\ guild \in GuildLayouts
    /\ webhooks = { h \in InitialWebhooks :
                      h.channel \in { c.id : c \in guild } }
    /\ Start

\* ------------------------------------------------------ Handler::ready
\* A session holds its broadcast receiver from the spawn until its task
\* returns or panics.
Subscribed(s) == pc[s] \notin {"unspawned", "errored", "panicked"}

\* Handler::ready: every Ready event subscribes a new receiver and spawns
\* irc(..), whatever the earlier sessions are doing.
Ready(s) ==
    /\ pc[s] = "unspawned"
    /\ \A t \in Sessions : t < s => pc[t] # "unspawned"
    /\ pc' = [pc EXCEPT ![s] = "resolve"]
    /\ rx_next' = [rx_next EXCEPT ![s] = Len(sent)]
    /\ UNCHANGED << guild, webhooks, bridged_channels, bridge_webhooks, todo,
                    listed, ircStream, sentIdx, rxDisabled, handled, creates, sequel, error, sent,
                    nCalls, lastCall, lastWrite, nIrc >>

\* ------------------------------------------------------------ start-up
\* Fail, were a failed call caught and logged with the task going on.
Fail_caught(s, what) ==
    /\ pc' = pc
    /\ error' = [error EXCEPT ![s] = what]

\* Fail, were a failed listing or creation skipped with the rest of the
\* start-up going on.
Fail_partial(s, what) ==
    /\ pc' = [pc EXCEPT ![s] = IF what \in {"list", "create"}
                                THEN "connect" ELSE "errored"]
    /\ error' = [error EXCEPT ![s] = what]

\* `?` on a failed call, and irc(..) logging the error: the task is over.
Fail(s, what) ==
    /\ pc' = [pc EXCEPT ![s] = "errored"]
    /\ error' = [error EXCEPT ![s] = what]

\* Insert, were the map emptied before every insertion.
Insert_clear(m, k, v) == [x \in {k} |-> v]

\* HashMap::insert: the value under k is v, whatever was there before.
Insert(m, k, v) == [x \in DOMAIN m \cup {k} |-> IF x = k THEN v ELSE m[x]]

\* get_bridged_channels, given the category that `.last()` selected.
ChildrenOf(channels, category) ==
    LET kids == { c \in channels :
                    c.parent_id # None /\ c.parent_id[1] = category.id }
    IN [i \in { c.id : c \in kids } |->
            (CHOOSE c \in kids : c.id = i).name]

\* get_bridged_channels, were the kind of the channel named "irc" not looked at.
get_bridged_channels_any_kind(channels) ==
    LET irc_category == { c \in channels : c.name = CategoryName }
    IN IF irc_category = {} THEN {EmptyMap}
       ELSE { ChildrenOf(channels, category) : category \in irc_category }

\* get_bridged_channels: the mappings it can return. The channel list is a
\* HashMap, so `.last()` is any one of the categories named "irc".
get_bridged_channels(channels) ==
    LET irc_category == { c \in channels :
                            c.kind = "Category" /\ c.name = CategoryName }
    IN IF irc_category = {} THEN {EmptyMap}
       ELSE { ChildrenOf(channels, category) : category \in irc_category }

\* get_or_create_webhooks has returned Ok in session r.
Provisioned(r) ==
    \/ pc[r] \in {"connect", "running", "panicked"}
    \/ pc[r] = "errored" /\ error[r] \notin {"channels", "list", "create"}

\* What follows the provisioning loop once `left` is what it has left.
AfterChannel(left) == IF left = {} THEN "connect" ELSE "provision"

\* listen_irc, main.rs:73: the channel mapping is resolved, or the call fails.
Resolve(s, ok) ==
    /\ pc[s] = "resolve"
    /\ IF ok
       THEN \E m \in get_bridged_channels(guild) :
              /\ bridged_channels' = [bridged_channels EXCEPT ![s] = m]
              /\ todo' = [todo EXCEPT ![s] = DOMAIN m]
              /\ pc' = [pc EXCEPT ![s] = AfterChannel(DOMAIN m)]
              /\ sequel' = [sequel EXCEPT ![s] = \E r \in Sessions : Provisioned(r)]
              /\ UNCHANGED error
       ELSE /\ Fail(s, "channels")
            /\ UNCHANGED << bridged_channels, todo, sequel >>
    /\ UNCHANGED << guild, webhooks, bridge_webhooks, listed, ircStream, rx_next, sentIdx,
                    rxDisabled, handled, creates, sent, nCalls, lastCall,
                    lastWrite, nIrc >>

\* IrcHooks, were the label not compared.
IrcHooks_any_label(hooks, c) == { h \in hooks : h.channel = c }

\* The webhooks of channel c that the loop of get_or_create_webhooks accepts.
IrcHooks(hooks, c) ==
    { h \in hooks : h.channel = c /\ h.name # None /\ h.name[1] = IrcLabel }

\* get_or_create_webhooks, main.rs:193-200: the listing of channel c. The
\* first hook named "irc" in the listing is reused; with none, the loop goes on
\* to create one.
ListWebhooks(s, c, ok) ==
    /\ pc[s] = "provision"
    /\ listed[s] = None
    /\ c \in todo[s]
    /\ IF ~ok
       THEN /\ Fail(s, "list")
            /\ UNCHANGED << bridge_webhooks, todo, listed >>
       ELSE IF IrcHooks(webhooks, c) # {}
       THEN \E hook \in IrcHooks(webhooks, c) :
              /\ bridge_webhooks' = [bridge_webhooks EXCEPT
                     ![s] = Insert(@, bridged_channels[s][c], hook)]
              /\ todo' = [todo EXCEPT ![s] = @ \ {c}]
              /\ pc' = [pc EXCEPT ![s] = AfterChannel(todo[s] \ {c})]
              /\ UNCHANGED << listed, error >>
       ELSE /\ listed' = [listed EXCEPT ![s] = Some(c)]
            /\ UNCHANGED << bridge_webhooks, todo, pc, error >>
    /\ UNCHANGED << guild, webhooks, bridged_channels, ircStream, rx_next, sentIdx, rxDisabled,
                    handled, creates, sequel, sent, nCalls, lastCall, lastWrite, nIrc >>

\* The webhook that create_webhook(http, "irc") adds to channel c.
NewHook(hooks, c) ==
    [id |-> Cardinality(hooks) + 1, channel |-> c, name |-> Some(IrcLabel)]

\* get_or_create_webhooks, main.rs:202-204: the creation for the channel whose
\* listing held no "irc" hook.
CreateWebhook(s, ok) ==
    /\ pc[s] = "provision"
    /\ listed[s] # None
    /\ LET c == listed[s][1] IN
       IF ok
       THEN /\ webhooks' = webhooks \cup {NewHook(webhooks, c)}
            /\ bridge_webhooks' = [bridge_webhooks EXCEPT
                   ![s] = Insert(@, bridged_channels[s][c], NewHook(webhooks, c))]
            /\ todo' = [todo EXCEPT ![s] = @ \ {c}]
            /\ listed' = [listed EXCEPT ![s] = None]
            /\ pc' = [pc EXCEPT ![s] = AfterChannel(todo[s] \ {c})]
            /\ UNCHANGED error
       ELSE /\ Fail(s, "create")
            /\ UNCHANGED << guild, webhooks, bridge_webhooks, todo, listed >>
    /\ creates' = [creates EXCEPT ![s] = @ + 1]
    /\ UNCHANGED << guild, sequel, bridged_channels, ircStream, rx_next, sentIdx, rxDisabled, handled,
                    sent, nCalls, lastCall, lastWrite, nIrc >>

\* IrcConnect, were the receiver subscribed once the IRC stream is open.
IrcConnect_subscribe(s, outcome) ==
    /\ pc[s] = "connect"
    /\ IF outcome = "ok"
       THEN /\ pc' = [pc EXCEPT ![s] = "running"]
            /\ rx_next' = [rx_next EXCEPT ![s] = Len(sent)]
            /\ UNCHANGED error
       ELSE Fail(s, outcome) /\ UNCHANGED rx_next
    /\ UNCHANGED << guild, webhooks, bridged_channels, bridge_webhooks, todo, listed,
                    ircStream, sentIdx, rxDisabled, handled, creates, sequel, sent,
                    nCalls, lastCall, lastWrite, nIrc >>

\* listen_irc, main.rs:77-81: IrcClient::new, identify and stream.
IrcConnect(s, outcome) ==
    /\ pc[s] = "connect"
    /\ IF outcome = "ok"
       THEN /\ pc' = [pc EXCEPT ![s] = "running"]
            /\ UNCHANGED error
       ELSE Fail(s, outcome)
    /\ UNCHANGED << guild, webhooks, bridged_channels, bridge_webhooks, todo, listed,
                    ircStream, rx_next, sentIdx, rxDisabled, handled, creates, sequel, sent,
                    nCalls, lastCall, lastWrite, nIrc >>

\* ------------------------------------------------------- the select! loop
\* A relay call of session s: it is counted, and it is the latest one.
Relay(s, call) ==
    /\ nCalls' = [nCalls EXCEPT ![s] = @ + 1]
    /\ lastCall' = call

NoRelay == UNCHANGED << nCalls, lastCall >>

\* get_correct_webhook, were the whole target compared with the keys.
get_correct_webhook_unstripped(channel, hooks) ==
    IF channel \in DOMAIN hooks
    THEN [panic |-> FALSE, found |-> Some(hooks[channel])]
    ELSE [panic |-> FALSE, found |-> None]

\* get_correct_webhook: `&channel[1..]` is evaluated once per entry of the map,
\* and panics on an empty channel; an entry whose key equals the rest is found.
get_correct_webhook(channel, hooks) ==
    IF DOMAIN hooks = {} THEN [panic |-> FALSE, found |-> None]
    ELSE IF Len(channel) < 1 THEN [panic |-> TRUE, found |-> None]
    ELSE LET name == Tail(channel) IN
         IF name \in DOMAIN hooks
         THEN [panic |-> FALSE, found |-> Some(hooks[name])]
         ELSE [panic |-> FALSE, found |-> None]

\* get_correct_channel: the outcomes it can have; with several channels of the
\* wanted name the HashMap's order decides which one is returned.
get_correct_channel(channel, channels) ==
    IF DOMAIN channels = {} THEN { [panic |-> FALSE, found |-> None] }
    ELSE IF Len(channel) < 1 THEN { [panic |-> TRUE, found |-> None] }
    ELSE LET name == Tail(channel)
             hits == { c \in DOMAIN channels : channels[c] = name }
         IN IF hits = {} THEN { [panic |-> FALSE, found |-> None] }
            ELSE { [panic |-> FALSE, found |-> Some(c)] : c \in hits }

\* The username of a relayed chat line.
Username(nick) == unwrap_or(nick, "null")

\* TopicText, were an absent topic given the default of an absent nick.
TopicText_null(text) == unwrap_or(text, "null")

\* The text of a relayed topic.
TopicText(text) == unwrap_or(text, "")

\* IrcTarget, were the `#` left out.
IrcTarget_bare(c) == c

\* The IRC target of a relayed guild message: format!("#{}", c).
IrcTarget(c) == <<"#">> \o c

\* A panic inside the task: tokio ends the task, the process goes on.
Panic(s) ==
    /\ pc' = [pc EXCEPT ![s] = "panicked"]
    /\ error' = [error EXCEPT ![s] = "slice"]

\* IrcBranch, were every inbound IRC event also published on the broadcast
\* channel as a message for channel 10.
IrcBranch_republish(s) ==
    /\ pc[s] = "running"
    /\ ircStream[s] = "open"
    /\ nIrc < MaxIrc
    /\ nIrc' = nIrc + 1
    /\ handled' = [handled EXCEPT ![s] = @ + 1]
    /\ rxDisabled' = [rxDisabled EXCEPT ![s] = FALSE]
    /\ sent' = Append(sent, [channel |-> 10, message |-> "hi"])
    /\ UNCHANGED << guild, webhooks, bridged_channels, bridge_webhooks, todo,
                    listed, ircStream, rx_next, sentIdx, creates, sequel,
                    lastWrite >>

\* What every iteration that took the IRC branch does besides its arm.
IrcBranch(s) ==
    /\ pc[s] = "running"
    /\ ircStream[s] = "open"
    /\ nIrc < MaxIrc
    /\ nIrc' = nIrc + 1
    /\ handled' = [handled EXCEPT ![s] = @ + 1]
    /\ rxDisabled' = [rxDisabled EXCEPT ![s] = FALSE]
    /\ UNCHANGED << guild, webhooks, bridged_channels, bridge_webhooks, todo, listed,
                    ircStream, rx_next, sentIdx, creates, sequel, sent, lastWrite >>

\* main.rs:88-100: Command::PRIVMSG(channel, text) from `nick`.
IrcPrivmsg(s, channel, nick, text, ok) ==
    /\ IrcBranch(s)
    /\ LET hook == get_correct_webhook(channel, bridge_webhooks[s]) IN
       IF hook.panic
       THEN Panic(s) /\ ok /\ NoRelay
       ELSE IF hook.found = None
       THEN ok /\ UNCHANGED << pc, error >> /\ NoRelay
       ELSE /\ Relay(s, Call(s, "post", hook.found[1].id,
                   hook.found[1].channel, None, Username(nick), text, ok))
            /\ IF ok THEN UNCHANGED << pc, error >> ELSE Fail(s, "post")

\* main.rs:101-106: Command::TOPIC(channel, text).
IrcTopic(s, channel, text, ok) ==
    /\ IrcBranch(s)
    /\ \E chan \in get_correct_channel(channel, bridged_channels[s]) :
       IF chan.panic
       THEN Panic(s) /\ ok /\ NoRelay
       ELSE IF chan.found = None
       THEN ok /\ UNCHANGED << pc, error >> /\ NoRelay
       ELSE /\ Relay(s, Call(s, "edit", 0, chan.found[1], None,
                   "", TopicText(text), ok))
            /\ IF ok THEN UNCHANGED << pc, error >> ELSE Fail(s, "edit")

\* main.rs:107: any other command.
IrcOther(s) ==
    /\ IrcBranch(s)
    /\ UNCHANGED << pc, error >> /\ NoRelay

\* main.rs:86: the stream yields an error, which `?` returns.
StreamErr(s) ==
    /\ pc[s] = "running"
    /\ ircStream[s] = "open"
    /\ Fail(s, "stream")
    /\ UNCHANGED << guild, webhooks, bridged_channels, bridge_webhooks, todo, listed,
                    ircStream, rx_next, sentIdx, rxDisabled, handled, creates, sequel, sent,
                    nCalls, lastCall, lastWrite, nIrc >>

\* main.rs:85-86, 109: the stream yields None: transpose gives Ok(None), the
\* `if let` does not match, and the loop goes round again.
StreamNone(s) ==
    /\ pc[s] = "running"
    /\ ircStream' = [ircStream EXCEPT ![s] = "ended"]
    /\ rxDisabled' = [rxDisabled EXCEPT ![s] = FALSE]
    /\ UNCHANGED << guild, webhooks, pc, bridged_channels, bridge_webhooks, todo,
                    listed, rx_next, sentIdx, handled, creates, sequel, error, sent, nCalls, lastCall,
                    lastWrite, nIrc >>

\* ------------------------------------------------- the broadcast channel
\* The channel keeps the latest Capacity messages.
Oldest == IF Len(sent) > Capacity THEN Len(sent) - Capacity ELSE 0

\* Messages published and not yet received by session s.
Unread(s) == Len(sent) - rx_next[s]

\* The receiver's next message was overwritten.
Lagged(s) == rx_next[s] < Oldest

\* RecvMsg, were the message read without the cursor moving on.
RecvMsg_peek(s, ok) ==
    /\ pc[s] = "running"
    /\ ~rxDisabled[s]
    /\ Unread(s) > 0
    /\ ~Lagged(s)
    /\ LET msg == sent[rx_next[s] + 1] IN
       IF msg.channel \in DOMAIN bridged_channels[s]
       THEN /\ Relay(s, Call(s, "send", 0, msg.channel,
                   IrcTarget(bridged_channels[s][msg.channel]), "",
                   msg.message, ok))
            /\ sentIdx' = [sentIdx EXCEPT ![s] = rx_next[s] + 1]
            /\ IF ok THEN UNCHANGED << pc, error >> ELSE Fail(s, "send")
       ELSE ok /\ UNCHANGED << pc, error, sentIdx >> /\ NoRelay
    /\ handled' = [handled EXCEPT ![s] = @ + 1]
    /\ UNCHANGED << guild, webhooks, bridged_channels, bridge_webhooks, todo, listed,
                    ircStream, rx_next, rxDisabled, creates, sequel, sent, lastWrite,
                    nIrc >>

\* main.rs:113-120: rx.recv() yields Ok(msg).
RecvMsg(s, ok) ==
    /\ pc[s] = "running"
    /\ ~rxDisabled[s]
    /\ Unread(s) > 0
    /\ ~Lagged(s)
    /\ LET msg == sent[rx_next[s] + 1] IN
       IF msg.channel \in DOMAIN bridged_channels[s]
       THEN /\ Relay(s, Call(s, "send", 0, msg.channel,
                   IrcTarget(bridged_channels[s][msg.channel]), "",
                   msg.message, ok))
            /\ sentIdx' = [sentIdx EXCEPT ![s] = rx_next[s] + 1]
            /\ IF ok THEN UNCHANGED << pc, error >> ELSE Fail(s, "send")
       ELSE ok /\ UNCHANGED << pc, error, sentIdx >> /\ NoRelay
    /\ rx_next' = [rx_next EXCEPT ![s] = @ + 1]
    /\ handled' = [handled EXCEPT ![s] = @ + 1]
    /\ UNCHANGED << guild, webhooks, bridged_channels, bridge_webhooks, todo, listed,
                    ircStream, rxDisabled, creates, sequel, sent, lastWrite, nIrc >>

\* main.rs:113: rx.recv() yields Err(Lagged): the pattern `Ok(msg)` does not
\* match, select! disables the branch and goes on waiting for the IRC stream.
RecvLagged(s) ==
    /\ pc[s] = "running"
    /\ ~rxDisabled[s]
    /\ Lagged(s)
    /\ rx_next' = [rx_next EXCEPT ![s] = Oldest]
    /\ rxDisabled' = [rxDisabled EXCEPT ![s] = TRUE]
    /\ UNCHANGED << sentIdx, guild, webhooks, pc, bridged_channels, bridge_webhooks, todo,
                    listed, ircStream, handled, creates, sequel, error, sent, nCalls, lastCall,
                    lastWrite, nIrc >>

\* ---------------------------------------------------- the write command
\* The invocations of `write` explored: in a bridged channel and in one
\* outside the category.
WriteInputs == { <<10, "hi">>, <<10, "yo">>, <<12, "hi">> }

\* The receivers of the broadcast channel: `_rx` of run(), which lives until
\* run() returns, and the receiver of every session's task.
ReceiverCount == 1 + Cardinality({ s \in Sessions : Subscribed(s) })

\* Write, were the message published before the echo.
Write_publish_first(channel, msg, echo_ok) ==
    /\ Len(sent) < MaxWrites
    /\ sent' = Append(sent, [channel |-> channel, message |-> msg])
    /\ lastWrite' = [echoed |-> echo_ok,
                     loops |-> Cardinality({ s \in Sessions : Subscribed(s) }),
                     result |-> IF echo_ok THEN "ok" ELSE "err"]
    /\ UNCHANGED << guild, webhooks, pc, bridged_channels, bridge_webhooks, todo,
                    listed, ircStream, rx_next, sentIdx, rxDisabled, handled, creates, sequel,
                    error, nCalls, lastCall, nIrc >>

\* write, main.rs:211-220: echo, then publish.
Write(channel, msg, echo_ok) ==
    /\ Len(sent) < MaxWrites
    /\ LET loops == Cardinality({ s \in Sessions : Subscribed(s) })
           publish == echo_ok /\ ReceiverCount > 0
       IN /\ sent' = IF publish
                     THEN Append(sent, [channel |-> channel, message |-> msg])
                     ELSE sent
          /\ lastWrite' = [echoed |-> echo_ok, loops |-> loops,
                           result |-> IF publish THEN "ok" ELSE "err"]
    /\ UNCHANGED << guild, webhooks, pc, bridged_channels, bridge_webhooks, todo,
                    listed, ircStream, rx_next, sentIdx, rxDisabled, handled, creates, sequel,
                    error, nCalls, lastCall, nIrc >>

\* ------------------------------------------------------ the specifications
\* The start-up steps of a session's task.
StartUp(s) ==
    \/ \E ok \in BOOLEAN : Resolve(s, ok)
    \/ \E c \in ChannelIds, ok \in BOOLEAN : ListWebhooks(s, c, ok)
    \/ \E ok \in BOOLEAN : CreateWebhook(s, ok)
    \/ \E outcome \in {"ok", "connect", "identify"} : IrcConnect(s, outcome)

\* One iteration of a session's select! loop.
Loop(s) ==
    \/ \E channel \in Targets, nick \in Nicks, text \in Bodies, ok \in BOOLEAN :
          IrcPrivmsg(s, channel, nick, text, ok)
    \/ \E channel \in Targets, text \in Topics, ok \in BOOLEAN :
          IrcTopic(s, channel, text, ok)
    \/ IrcOther(s)
    \/ StreamErr(s)
    \/ StreamNone(s)
    \/ \E ok \in BOOLEAN : RecvMsg(s, ok)
    \/ RecvLagged(s)

\* One guild session, from its Ready event on, and the write command.
Next ==
    \/ Ready(1)
    \/ StartUp(1)
    \/ Loop(1)
    \/ \E w \in WriteInputs, echo_ok \in BOOLEAN : Write(w[1], w[2], echo_ok)

Spec == Init /\ [][Next]_vars

\* Spec with the scheduling of the runtime: a call of the start-up returns,
\* and select! picks a ready branch at random, so that a message waiting in
\* the receiver is taken sooner or later whatever the IRC stream yields.
FairSpec ==
    /\ Init
    /\ [][Next]_vars
    /\ WF_vars(StartUp(1))
    /\ WF_vars(\E ok \in BOOLEAN : RecvMsg(1, ok))

\* Several Ready events: the sessions they spawn start up side by side.
NextSessions ==
    \/ \E s \in Sessions : Ready(s)
    \/ \E s \in Sessions : StartUp(s)

SpecSessions == Init /\ [][NextSessions]_vars

\* The start-up of one session on each of the channel lists explored.
NextLayouts ==
    \/ Ready(1)
    \/ StartUp(1)

SpecLayouts == InitLayouts /\ [][NextLayouts]_vars

\* ------------------------------------------------------------ the claims
\* The display name the guild gives channel i.
DisplayName(i) == (CHOOSE c \in GuildChannels : c.id = i).name

\* The names <name> of the chat lines explored whose target is `#<name>`.
HashNames == { Tail(t) : t \in { x \in Targets : Len(x) > 0 /\ x[1] = "#" } }

\* C1: a chat line on `#<name>` makes exactly one post, through the relay
\* identity stored under <name>, with the sender's nick (or "null") as username
\* and the body as content, when <name> has an entry; it makes no call and
\* leaves the loop running when <name> has none.
C1_ChatLineRouted ==
    [][\A s \in Sessions :
        (handled'[s] # handled[s] /\ nIrc' # nIrc) =>
        \A name \in HashNames, nick \in Nicks, text \in Bodies, ok \in BOOLEAN :
          IrcPrivmsg(s, <<"#">> \o name, nick, text, ok) =>
             IF name \in DOMAIN bridge_webhooks[s]
             THEN /\ nCalls'[s] = nCalls[s] + 1
                  /\ lastCall' = Call(s, "post", bridge_webhooks[s][name].id,
                        bridge_webhooks[s][name].channel, None,
                        IF nick = None THEN "null" ELSE nick[1], text, ok)
             ELSE /\ nCalls' = nCalls
                  /\ lastCall' = lastCall
                  /\ pc'[s] = "running"]_vars

\* C1 witness: a chat line without a nick has been posted as "null" into the
\* guild channel named like its target.
C1_Witness ==
    /\ lastCall.kind = "post"
    /\ lastCall.username = "null"
    /\ lastCall.ok
    /\ DisplayName(lastCall.channel) = <<"g">>

\* C2: a received BridgeMessage for a channel of the mapping makes exactly one
\* IRC send, to `#` and the channel's display name, with the body unchanged;
\* one for a channel outside the mapping makes no call and leaves the loop
\* running.
C2_BridgeMessageSent ==
    [][\A s \in Sessions, ok \in BOOLEAN :
          RecvMsg(s, ok) =>
             LET msg == sent[rx_next[s] + 1] IN
             IF msg.channel \in DOMAIN bridged_channels[s]
             THEN /\ nCalls'[s] = nCalls[s] + 1
                  /\ lastCall'.kind = "send"
                  /\ lastCall'.session = s
                  /\ lastCall'.target = <<"#">> \o DisplayName(msg.channel)
                  /\ lastCall'.content = msg.message
             ELSE /\ nCalls' = nCalls
                  /\ lastCall' = lastCall
                  /\ pc'[s] = "running"]_vars

\* C2 witness: a message written in channel 10 has been sent to #g.
C2_Witness ==
    /\ lastCall.kind = "send"
    /\ lastCall.target = <<"#", "g">>
    /\ lastCall.content = "yo"
    /\ lastCall.ok

\* C3: once the IRC stream has yielded its end to the loop, the loop has left
\* Running.
C3_StreamEndTerminates ==
    \A s \in Sessions : ircStream[s] = "ended" => pc[s] # "running"

\* The relay identities labelled "irc" that channel c holds.
LabelledIrc(c) ==
    { h \in webhooks : h.channel = c /\ h.name = Some(IrcLabel) }

\* C4: no bridged channel ever holds more than one relay identity labelled
\* "irc", whatever the interleaving of the sessions' provisioning runs.
C4_NoDuplicateIrcHook ==
    \A c \in ChannelIds : Cardinality(LabelledIrc(c)) <= 1

\* C5: a provisioning run that starts after another one has completed makes no
\* create call, ends with an existing "irc" relay identity of the channel for
\* every channel, and no relay identity of another label is ever changed or
\* removed.
C5_SequentialIdempotent ==
    /\ \A s \in Sessions :
          sequel[s] =>
             /\ creates[s] = 0
             /\ Provisioned(s) =>
                   \A c \in DOMAIN bridged_channels[s] :
                      /\ bridged_channels[s][c] \in DOMAIN bridge_webhooks[s]
                      /\ bridge_webhooks[s][bridged_channels[s][c]]
                            \in LabelledIrc(c)
    /\ { h \in webhooks : h.name # Some(IrcLabel) } = {OtherHook}

\* C5 witness: a second run has completed after a first one that had to create
\* a relay identity.
C5_Witness ==
    \E s, r \in Sessions :
       /\ s # r
       /\ sequel[s] /\ Provisioned(s)
       /\ Provisioned(r) /\ creates[r] > 0

\* C6: at most one session's loop is Running at any time.
C6_SingleRunningLoop ==
    Cardinality({ s \in Sessions : pc[s] = "running" }) <= 1

\* C7: a `write` whose echo succeeded while no session held a receiver returns
\* an error.
C7_WriteWithoutLoopFails ==
    (lastWrite.result # "none" /\ lastWrite.echoed /\ lastWrite.loops = 0)
       => lastWrite.result = "err"

\* The relay calls of an iteration, and the calls of the start-up.
RelayErrors == {"post", "edit", "send"}
StartUpErrors == {"channels", "list", "create", "connect", "identify"}

\* C8: a relay call that fails ends the session's task with that call's error,
\* and a task that has ended stays ended: it processes no further event and
\* makes no further call.
C8_RelayFailureTerminates ==
    [][\A s \in Sessions :
          /\ (nCalls'[s] = nCalls[s] + 1 /\ ~lastCall'.ok) =>
                /\ pc'[s] = "errored"
                /\ error'[s] = lastCall'.kind
                /\ error'[s] \in RelayErrors
          /\ pc[s] = "errored" =>
                /\ pc'[s] = "errored"
                /\ error'[s] = error[s]
                /\ handled'[s] = handled[s]
                /\ nCalls'[s] = nCalls[s]
                /\ rx_next'[s] = rx_next[s]]_vars

\* C8 witness: a session ended by a failed relay call while a published
\* message was still unread by it.
C8_Witness ==
    \E s \in Sessions :
       /\ pc[s] = "errored"
       /\ error[s] \in RelayErrors
       /\ Unread(s) > 0

\* C9: a session whose start-up failed has ended, has processed no event and
\* has made no relay call.
C9_StartUpFailureAborts ==
    \A s \in Sessions :
       error[s] \in StartUpErrors =>
          /\ pc[s] = "errored"
          /\ handled[s] = 0
          /\ nCalls[s] = 0

\* C9 witness: the provisioning of a second channel failed after a first
\* channel had got its relay identity, with a message published since.
C9_Witness ==
    \E s \in Sessions :
       /\ error[s] \in {"list", "create"}
       /\ DOMAIN bridge_webhooks[s] # {}
       /\ Unread(s) > 0

\* C10: a Running loop that holds retained unread messages, with the IRC
\* stream open and silent, can receive them: the broadcast branch is not
\* disabled.
C10_LagDoesNotBlock ==
    \A s \in Sessions :
       (pc[s] = "running" /\ ircStream[s] = "open" /\ Unread(s) > 0)
          => ~rxDisabled[s]

\* C11: a topic change on `#<name>` makes exactly one topic edit, on a channel
\* of the mapping whose display name is <name>, with the new topic or with the
\* empty string when the topic is absent; it makes no call when no channel has
\* that name. A step that consumes no IRC event makes no call but an IRC chat
\* line: nothing on the guild side changes a topic.
C11_TopicPropagated ==
    [][/\ \A s \in Sessions :
          (handled'[s] # handled[s] /\ nIrc' # nIrc) =>
          \A name \in HashNames, text \in Topics, ok \in BOOLEAN :
             IrcTopic(s, <<"#">> \o name, text, ok) =>
                LET hits == { c \in DOMAIN bridged_channels[s] :
                                bridged_channels[s][c] = name }
                IN IF hits # {}
                   THEN /\ nCalls'[s] = nCalls[s] + 1
                        /\ lastCall'.kind = "edit"
                        /\ lastCall'.session = s
                        /\ lastCall'.channel \in hits
                        /\ lastCall'.content =
                              (IF text = None THEN "" ELSE text[1])
                   ELSE /\ nCalls' = nCalls
                        /\ lastCall' = lastCall
       /\ (nIrc' = nIrc /\ nCalls' # nCalls) => lastCall'.kind = "send"]_vars

\* C11 witness: an absent topic on #g has set the topic of channel 10 to the
\* empty string.
C11_Witness ==
    /\ lastCall.kind = "edit"
    /\ lastCall.channel = 10
    /\ lastCall.content = ""
    /\ lastCall.ok

\* The categories of the guild named exactly "irc".
IrcCategoriesOf(channels) ==
    { c \in channels : c.kind = "Category" /\ c.name = <<"i", "r", "c">> }

\* m holds exactly the children of category cat, each under its own name.
IsMappingOf(m, channels, cat) ==
    /\ DOMAIN m = { c.id : c \in { x \in channels :
                                     x.parent_id = Some(cat.id) } }
    /\ \A c \in channels : c.id \in DOMAIN m => m[c.id] = c.name

\* C12: a channel listing that succeeds resolves, without an error, to the
\* children of one category named exactly "irc", each keyed to its own display
\* name, and to the empty mapping when the guild has no such category.
C12_ResolveExact ==
    [][\A s \in Sessions :
          Resolve(s, TRUE) =>
             /\ pc'[s] \in {"provision", "connect"}
             /\ error'[s] = "none"
             /\ IF IrcCategoriesOf(guild) = {}
                THEN bridged_channels'[s] = EmptyMap
                ELSE \E cat \in IrcCategoriesOf(guild) :
                        IsMappingOf(bridged_channels'[s], guild, cat)]_vars

\* C12 witness: channels 10 and 11 alone are mapped in a guild that also holds
\* a text channel named "irc", a category "IRC" with a child, and channel 12.
C12_Witness ==
    \E s \in Sessions :
       /\ pc[s] = "provision"
       /\ DOMAIN bridged_channels[s] = {10, 11}
       /\ bridged_channels[s][10] = <<"g">>
       /\ {3, 4, 12, 15} \subseteq { c.id : c \in guild }

\* C13: every relay call is made by one session in one step; an IRC send
\* consumes exactly one published message and carries it, a post consumes
\* exactly one inbound IRC event; a step that consumes an IRC event publishes
\* nothing, a step that consumes no IRC event posts nothing, and a step that
\* publishes makes no relay call.
C13_NoFeedback ==
    [][/\ nCalls' # nCalls =>
             \E s \in Sessions :
                /\ nCalls' = [nCalls EXCEPT ![s] = @ + 1]
                /\ lastCall'.session = s
                /\ lastCall'.kind \in {"post", "edit", "send"}
                /\ lastCall'.kind = "send" =>
                      /\ nIrc' = nIrc
                      /\ rx_next'[s] = rx_next[s] + 1
                      /\ lastCall'.channel = sent[rx_next[s] + 1].channel
                      /\ lastCall'.content = sent[rx_next[s] + 1].message
                /\ lastCall'.kind = "post" =>
                      /\ nIrc' = nIrc + 1
                      /\ rx_next' = rx_next
       /\ nIrc' # nIrc => sent' = sent
       /\ (nIrc' = nIrc /\ nCalls' # nCalls) => lastCall'.kind # "post"
       /\ sent' # sent =>
             /\ nCalls' = nCalls
             /\ lastCall' = lastCall
             /\ Len(sent') = Len(sent) + 1]_vars

\* C13 witness: the session has sent a published message to IRC and then
\* posted a chat line.
C13_Witness ==
    \E s \in Sessions :
       /\ sentIdx[s] > 0
       /\ nCalls[s] >= 2
       /\ lastCall.kind = "post"
       /\ lastCall.ok

\* C14: a chat line whose target does not start with `#` makes no relay call
\* and leaves the loop running.
C14_OnlyHashTargets ==
    [][\A s \in Sessions :
        (handled'[s] # handled[s] /\ nIrc' # nIrc) =>
        \A channel \in Targets, nick \in Nicks, text \in Bodies, ok \in BOOLEAN :
          (/\ Len(channel) = 0 \/ channel[1] # "#"
           /\ IrcPrivmsg(s, channel, nick, text, ok)) =>
             /\ nCalls' = nCalls
             /\ lastCall' = lastCall
             /\ pc'[s] = "running"]_vars

\* C15, as stated: once provisioning has succeeded the relay identity map has
\* as many entries as the channel mapping, and the entry under a channel's
\* display name posts into that channel.
C15_OneEntryPerChannel ==
    \A s \in Sessions :
       Provisioned(s) =>
          /\ Cardinality(DOMAIN bridge_webhooks[s])
                = Cardinality(DOMAIN bridged_channels[s])
          /\ \A c \in DOMAIN bridged_channels[s] :
                /\ bridged_channels[s][c] \in DOMAIN bridge_webhooks[s]
                /\ bridge_webhooks[s][bridged_channels[s][c]].channel = c

\* C15, amended: once provisioning has succeeded the relay identity map has
\* exactly one entry per display name of the channel mapping, and the entry
\* under a name is a hook labelled "irc" that posts into a mapped channel of
\* that name (the only one when the names are distinct).
C15_OneEntryPerName ==
    \A s \in Sessions :
       Provisioned(s) =>
          /\ DOMAIN bridge_webhooks[s]
                = { bridged_channels[s][c] : c \in DOMAIN bridged_channels[s] }
          /\ \A n \in DOMAIN bridge_webhooks[s] :
                /\ bridge_webhooks[s][n].channel \in DOMAIN bridged_channels[s]
                /\ bridged_channels[s][bridge_webhooks[s][n].channel] = n
                /\ bridge_webhooks[s][n].name = Some("irc")

\* C15 witness: provisioning has succeeded on a mapping of three channels, two
\* of them with the same display name, and the map has two entries.
C15_Witness ==
    \E s \in Sessions :
       /\ pc[s] = "connect"
       /\ DOMAIN bridged_channels[s] = {10, 11, 13}
       /\ bridged_channels[s][10] = bridged_channels[s][13]
       /\ Cardinality(DOMAIN bridge_webhooks[s]) = 2

\* C16: an invocation of write whose echo succeeded publishes exactly its
\* message and returns Ok; one whose echo failed publishes nothing and returns
\* the error; nothing else publishes.
C16_PublishAfterEcho ==
    [][/\ \A w \in WriteInputs, echo_ok \in BOOLEAN :
             Write(w[1], w[2], echo_ok) =>
                IF echo_ok
                THEN /\ sent' = Append(sent, [channel |-> w[1], message |-> w[2]])
                     /\ lastWrite'.result = "ok"
                ELSE /\ sent' = sent
                     /\ lastWrite'.result = "err"
       /\ sent' # sent =>
             /\ Len(sent') = Len(sent) + 1
             /\ lastWrite'.echoed
             /\ lastWrite'.result = "ok"]_vars

\* C16 witness: after a successful invocation, one whose echo failed has
\* returned the error.
C16_Witness ==
    /\ Len(sent) = 1
    /\ ~lastWrite.echoed
    /\ lastWrite.result = "err"

\* C17: the broadcast channel only grows at its end, and every send of a
\* session carries a publication later in it than every earlier send of the
\* session.
C17_SendsInOrder ==
    [][/\ \/ sent' = sent
          \/ /\ Len(sent') = Len(sent) + 1
             /\ SubSeq(sent', 1, Len(sent)) = sent
       /\ \A s \in Sessions :
             /\ (nCalls'[s] # nCalls[s] /\ lastCall'.kind = "send") =>
                   /\ sentIdx'[s] > sentIdx[s]
                   /\ sentIdx'[s] <= Len(sent)
                   /\ lastCall'.channel = sent[sentIdx'[s]].channel
                   /\ lastCall'.content = sent[sentIdx'[s]].message
             /\ sentIdx'[s] # sentIdx[s] =>
                   /\ nCalls'[s] = nCalls[s] + 1
                   /\ lastCall'.kind = "send"]_vars

\* C17 witness: the session has sent the first and then the second publication.
C17_Witness ==
    \E s \in Sessions :
       /\ sentIdx[s] = 2
       /\ nCalls[s] >= 2
       /\ lastCall.kind = "send"
       /\ lastCall.content = "yo"

\* Publication i is for a channel of the "irc" category.
ForMappedChannel(i) ==
    \E c \in guild : c.id = sent[i].channel /\ c.parent_id = Some(1)

\* C18: a message for a mapped channel that was published after the session
\* subscribed and is still unread is sent in the end, unless the task ends or
\* more messages than the channel holds were unread (the receiver lags, or
\* has lagged and waits for the IRC stream).
C18_EventuallySent ==
    \A i \in 1..MaxWrites :
       (/\ Subscribed(1)
        /\ rx_next[1] < i
        /\ i <= Len(sent)
        /\ ForMappedChannel(i))
       ~> (\/ sentIdx[1] = i
           \/ pc[1] \in {"errored", "panicked"}
           \/ Lagged(1)
           \/ rxDisabled[1])

\* C18 witness: the session is still starting up and as many messages for a
\* mapped channel as the channel holds were published since it subscribed.
C18_Witness ==
    /\ pc[1] = "connect"
    /\ rx_next[1] = 0
    /\ Len(sent) = Capacity
    /\ \A i \in 1..Len(sent) : ForMappedChannel(i)

====
